---- MODULE Spec2Model ----
(***************************************************************************)
(* Model of py-struct (src/serialization.py, src/example.py): the type     *)
(* hint resolver parse_hint, the layout pass of StructMeta.__new__ with    *)
(* its four alignment policies, and the recursive __load__/__save__ codec  *)
(* of every serializer, run against a BytesIO cursor.                      *)
(*                                                                         *)
(* Python values are records tagged with their type: an int is             *)
(* [type |-> "int", v |-> n], a tuple/list/bytes/bytearray is              *)
(* [type |-> ..., items |-> <<...>>], a dataclass instance is              *)
(* [type |-> class name, attrs |-> [field |-> value]].  A raised exception *)
(* is a record with kind "Error" (resolution) or ok = FALSE (codec) that   *)
(* every caller passes on unchanged.                                       *)
(***************************************************************************)
EXTENDS Integers, Sequences, FiniteSets, TLC

----------------------------------------------------------------------------
(* Bounds of the model *)

\* most nodes (fields, tuples, sequences, nested classes, leaves) in the
\* annotations of one generic class body
MaxNodes == 3
\* largest FixedSize(n) of a generic blob
MaxBlob == 1
\* largest FixedSize(n) of a generic sequence
MaxCount == 1
\* largest value of a generic integer field or blob byte
MaxValue == 1

----------------------------------------------------------------------------
(* Python built-ins used by the source *)

\* the key None of an inserted padding entry (field names are strings)
None == "None"

\* the value None returned by a function without a return statement
NoneValue == [type |-> "NoneType"]

RECURSIVE gcd2(_, _)
gcd2(a, b) == IF b = 0 THEN a ELSE gcd2(b, a % b)

RECURSIVE gcd(_)
\* math.gcd(*args): 0 for no arguments
gcd(args) == IF args = <<>> THEN 0 ELSE gcd2(args[Len(args)], gcd(SubSeq(args, 1, Len(args) - 1)))

\* math.lcm(a, b) of two non-negative integers: 0 when either is 0
lcm(a, b) == IF a = 0 \/ b = 0 THEN 0 ELSE (a * b) \div gcd2(a, b)

RECURSIVE sum(_)
sum(xs) == IF xs = <<>> THEN 0 ELSE xs[1] + sum(Tail(xs))

Min(a, b) == IF a < b THEN a ELSE b

\* struct.calcsize(fmt) in native mode on LP64
calcsize(fmt) ==
    CASE fmt \in {"B", "b"} -> 1
      [] fmt \in {"H", "h"} -> 2
      [] fmt \in {"I", "i", "f"} -> 4
      [] fmt \in {"Q", "q", "d"} -> 8

\* whether struct format fmt is a signed integer
signed(fmt) == fmt \in {"b", "h", "i", "q"}

\* a raised exception at resolution time; pad and n are the numbers the
\* message names (0 when it names none)
Error(exc, msg, pad, n) == [kind |-> "Error", exc |-> exc, msg |-> msg, pad |-> pad, n |-> n]

IsError(t) == t.kind = "Error"

----------------------------------------------------------------------------
(* Type hints *)

__PrimitiveField(fmt) == [meta |-> "__PrimitiveField", fmt |-> fmt, size |-> 0]

FixedSize(size) == [meta |-> "FixedSize", fmt |-> "", size |-> size]

\* a plain (non-serializable) class object such as int or bytes
Builtin(name) == [kind |-> "builtin", name |-> name]

\* Annotated[cls, *metadata] for a class, or the bare class when metadata = <<>>
ClassHint(cls, metadata) == [origin |-> "None", args |-> <<>>, cls |-> cls, metadata |-> metadata]

\* Annotated[origin[*args], *metadata] for origin list or tuple
GenericHint(origin, args, metadata) ==
    [origin |-> origin, args |-> args, cls |-> Builtin(origin), metadata |-> metadata]

Ellipsis == [origin |-> "Ellipsis", args |-> <<>>, cls |-> Builtin("ellipsis"), metadata |-> <<>>]

PrimitiveHint(fmt) == ClassHint(Builtin("int"), <<__PrimitiveField(fmt)>>)

U8 == PrimitiveHint("B")
U16 == PrimitiveHint("H")
U32 == PrimitiveHint("I")
U64 == PrimitiveHint("Q")
S8 == PrimitiveHint("b")
S16 == PrimitiveHint("h")
S32 == PrimitiveHint("i")
S64 == PrimitiveHint("q")

is_serializable(hint) == hint.origin = "None" /\ hint.cls.kind = "Struct"

----------------------------------------------------------------------------
(* Serializer objects *)

\* bytes([0]) * size
zeros(size) == [i \in 1..size |-> 0]

Padding(size, mode) ==
    [kind |-> "Padding", mode |-> mode, contents |-> zeros(size),
     __size__ |-> size, __align__ |-> 1]

\* mutant: __size__ taken from the element, the count forgotten
SequenceSerializer_one(base, size, ctor) ==
    IF IsError(base) THEN base
    ELSE [kind |-> "SequenceSerializer", base |-> base, size |-> size, ctor |-> ctor,
          __size__ |-> base.__size__, __align__ |-> base.__align__]

SequenceSerializer(base, size, ctor) ==
    IF IsError(base) THEN base
    ELSE [kind |-> "SequenceSerializer", base |-> base, size |-> size, ctor |-> ctor,
          __size__ |-> base.__size__ * size, __align__ |-> base.__align__]

TupleSerializer(args) ==
    IF \E i \in 1..Len(args) : IsError(args[i])
    THEN args[CHOOSE i \in 1..Len(args) :
                 IsError(args[i]) /\ \A j \in 1..(i - 1) : ~IsError(args[j])]
    ELSE [kind |-> "TupleSerializer", args |-> args,
          __size__ |-> sum([i \in 1..Len(args) |-> args[i].__size__]),
          __align__ |-> gcd([i \in 1..Len(args) |-> args[i].__align__])]

BytesSerializer(size, ctor) ==
    [kind |-> "BytesSerializer", ctor |-> ctor, __size__ |-> size, __align__ |-> 1]

PrimitiveSerializer(fmt) ==
    [kind |-> "PrimitiveSerializer", fmt |-> fmt,
     __size__ |-> calcsize(fmt), __align__ |-> calcsize(fmt)]

----------------------------------------------------------------------------
(* parse_hint *)

\* find_metadata(cls) is not None
has_metadata(hint, cls) == \E i \in 1..Len(hint.metadata) : hint.metadata[i].meta = cls

\* find_metadata(cls): the first metadata entry that is an instance of cls
find_metadata(hint, cls) ==
    hint.metadata[CHOOSE i \in 1..Len(hint.metadata) :
        /\ hint.metadata[i].meta = cls
        /\ \A j \in 1..(i - 1) : hint.metadata[j].meta # cls]

RECURSIVE parse_hint(_)
handle_sequence(hint) ==
    IF has_metadata(hint, "FixedSize")
    THEN SequenceSerializer(parse_hint(hint.args[1]), find_metadata(hint, "FixedSize").size,
                            hint.origin)
    ELSE Error("Exception", "I don't know how to handle variadic", 0, 0)

parse_hint(hint) ==
    IF is_serializable(hint) THEN hint.cls
    ELSE IF hint.origin = "list" /\ Len(hint.args) = 1 THEN handle_sequence(hint)
    ELSE IF hint.origin = "tuple" THEN
        IF Len(hint.args) = 2 /\ hint.args[2] = Ellipsis THEN handle_sequence(hint)
        ELSE TupleSerializer([i \in 1..Len(hint.args) |-> parse_hint(hint.args[i])])
    ELSE IF has_metadata(hint, "__PrimitiveField")
        THEN PrimitiveSerializer(find_metadata(hint, "__PrimitiveField").fmt)
    ELSE IF hint.cls.name \in {"bytes", "bytearray"} /\ has_metadata(hint, "FixedSize")
        THEN BytesSerializer(find_metadata(hint, "FixedSize").size, hint.cls.name)
    ELSE Error("Exception", "I don't know how to handle", 0, 0)

----------------------------------------------------------------------------
(* StructMeta.__new__: the layout pass *)

Policies == {"no", "discard", "zeros", "explicit"}

\* the state threaded through the layout pass
Layout(fields, size, align) == [kind |-> "Layout", fields |-> fields, __size__ |-> size, __align__ |-> align]

\* mutant: the pad computed as n - __size__ % n, a full n when already aligned
pad_before_full(size, n) == n - (size % n)

\* the pad of line 54: (-__size__) % n
pad_before(size, n) == (-size) % n

\* mutant: the rejection tied to the wrong policy name
rejects_padding_zeros(align) == align = "zeros"

\* line 55: whether a non-zero pad is rejected under policy align
rejects_padding(align) == align = "explicit"

\* insert_padding(k, n) acting on the closure variables fields, __size__, __align__
\* under policy align; returns them updated, or the raised exception
insert_padding(k, n, lay, align) ==
    IF align = "no" THEN lay
    ELSE IF n = 0 THEN Error("ZeroDivisionError", "integer modulo by zero", 0, 0)
    ELSE LET pad == pad_before(lay.__size__, n) IN
         IF pad # 0 /\ rejects_padding(align)
         THEN Error("AssertionError", "unannotated padding", pad, n)
         ELSE Layout(IF pad # 0 THEN Append(lay.fields, [k |-> None, t |-> Padding(pad, align)])
                                ELSE lay.fields,
                     lay.__size__ + pad, lcm(lay.__align__, n))

RECURSIVE layout_loop(_, _, _, _)
\* the for loop of lines 61-64 from field i on
layout_loop(hints, i, lay, align) ==
    IF i > Len(hints) THEN lay
    ELSE LET padded == insert_padding(hints[i].k, hints[i].t.__align__, lay, align) IN
         IF IsError(padded) THEN padded
         ELSE layout_loop(hints, i + 1,
                          Layout(Append(padded.fields, hints[i]),
                                 padded.__size__ + hints[i].t.__size__, padded.__align__),
                          align)

\* mutant: the assertion without its divisibility half
size_is_multiple_unchecked(__size__, __align__) == __align__ > 0

\* the condition asserted on line 80
size_is_multiple(__size__, __align__) == __align__ > 0 /\ __size__ % __align__ = 0

reserved == {"__size__", "__align__"}

\* namespace.get('__align__', default)
namespace_get_align(namespace, default) ==
    IF "__align__" \in DOMAIN namespace THEN namespace["__align__"] ELSE default

\* StructMeta.__new__(cls, name, bases, namespace, align): annotations is the
\* ordered list of (k, hint) of the class body, namespace its other entries.
\* Returns the new class, or the exception that aborts the class statement.
StructMeta(name, annotations, namespace, align) ==
    LET kept == SelectSeq(annotations, LAMBDA a : a.k \notin reserved)
        hints == [i \in 1..Len(kept) |-> [k |-> kept[i].k, t |-> parse_hint(kept[i].v)]]
    IN IF \E i \in 1..Len(hints) : IsError(hints[i].t)
       THEN hints[CHOOSE i \in 1..Len(hints) :
                     IsError(hints[i].t) /\ \A j \in 1..(i - 1) : ~IsError(hints[j].t)].t
       ELSE LET body == layout_loop(hints, 1, Layout(<<>>, 0, 1), align) IN
            IF IsError(body) THEN body
            ELSE LET end == insert_padding("<end>", body.__align__, body, align) IN
                 IF IsError(end) THEN end
                 ELSE LET __align__ == namespace_get_align(namespace, end.__align__) IN
                      IF size_is_multiple(end.__size__, __align__)
                      THEN [kind |-> "Struct", name |-> name, fields |-> end.fields,
                            __size__ |-> end.__size__, __align__ |-> __align__]
                      ELSE Error("AssertionError", "__size__ must be a multiple of __align__", 0, 0)

----------------------------------------------------------------------------
(* io.BytesIO *)

BytesIO(data) == [buf |-> data, pos |-> 0]

\* st.read(n): the bytes returned; fewer than n when the buffer runs out
read(st, n) == SubSeq(st.buf, st.pos + 1, Min(st.pos + n, Len(st.buf)))

\* the cursor after st.read(n)
after_read(st, n) == [st EXCEPT !.pos = Min(st.pos + n, Len(st.buf))]

\* the cursor after st.write(b)
write(st, b) ==
    [buf |-> SubSeq(st.buf, 1, st.pos) \o b \o SubSeq(st.buf, st.pos + Len(b) + 1, Len(st.buf)),
     pos |-> st.pos + Len(b)]

----------------------------------------------------------------------------
(* struct.Struct(fmt).pack / unpack, native (little-endian) byte order *)

PyInt(v) == [type |-> "int", v |-> v]

RECURSIVE to_bytes_be(_, _)
\* mutant: the bytes written most significant first
to_bytes_be(v, n) == IF n = 0 THEN <<>> ELSE to_bytes_be(v \div 256, n - 1) \o <<v % 256>>

RECURSIVE to_bytes(_, _)
\* the n low-order bytes of v, least significant first (two's complement)
to_bytes(v, n) == IF n = 0 THEN <<>> ELSE <<v % 256>> \o to_bytes(v \div 256, n - 1)

RECURSIVE shr(_, _)
\* v >> (8 * n)
shr(v, n) == IF n = 0 THEN v ELSE shr(v \div 256, n - 1)

\* whether pack accepts x for format fmt
packable(fmt, x) ==
    /\ x.type = "int"
    /\ IF signed(fmt) THEN shr(x.v, calcsize(fmt) - 1) \in -128..127
                      ELSE x.v >= 0 /\ shr(x.v, calcsize(fmt)) = 0

pack(fmt, x) == to_bytes(x.v, calcsize(fmt))

RECURSIVE from_bytes(_, _)
from_bytes(b, sgn) ==
    IF Len(b) = 1 THEN (IF sgn /\ b[1] >= 128 THEN b[1] - 256 ELSE b[1])
    ELSE b[1] + 256 * from_bytes(Tail(b), sgn)

unpack(fmt, b) == PyInt(from_bytes(b, signed(fmt)))

----------------------------------------------------------------------------
(* __load__: the result is the returned value and the cursor, or the raised *)
(* exception and the cursor as the raise left it                           *)

Returned(val, st) == [ok |-> TRUE, val |-> val, err |-> "", st |-> st]

Raised(err, st) == [ok |-> FALSE, val |-> NoneValue, err |-> err, st |-> st]

RECURSIVE __load__(_, _)

\* mutant: the mode test inverted, so that `zeros` padding is never verified
Padding__load__inverted(self, st) ==
    LET got == read(st, self.__size__) IN
    IF self.mode = "discard" /\ got # self.contents
    THEN Raised("AssertionError: incorrect padding", after_read(st, self.__size__))
    ELSE Returned(NoneValue, after_read(st, self.__size__))

Padding__load__(self, st) ==
    LET got == read(st, self.__size__) IN
    IF self.mode # "discard" /\ got # self.contents
    THEN Raised("AssertionError: incorrect padding", after_read(st, self.__size__))
    ELSE Returned(NoneValue, after_read(st, self.__size__))

RECURSIVE load_items(_, _, _, _)
\* loads the serializers ts[i..] in order, collecting the values after items
load_items(ts, i, st, items) ==
    IF i > Len(ts) THEN Returned(items, st)
    ELSE LET r == __load__(ts[i], st) IN
         IF ~r.ok THEN r ELSE load_items(ts, i + 1, r.st, Append(items, r.val))

SequenceSerializer__load__(self, st) ==
    LET r == load_items([i \in 1..self.size |-> self.base], 1, st, <<>>) IN
    IF ~r.ok THEN r ELSE Returned([type |-> self.ctor, items |-> r.val], r.st)

TupleSerializer__load__(self, st) ==
    LET r == load_items(self.args, 1, st, <<>>) IN
    IF ~r.ok THEN r ELSE Returned([type |-> "tuple", items |-> r.val], r.st)

BytesSerializer__load__(self, st) ==
    Returned([type |-> self.ctor, items |-> read(st, self.__size__)], after_read(st, self.__size__))

PrimitiveSerializer__load__(self, st) ==
    LET got == read(st, self.__size__) IN
    IF Len(got) # self.__size__
    THEN Raised("struct.error: unpack requires a buffer", after_read(st, self.__size__))
    ELSE Returned(unpack(self.fmt, got), after_read(st, self.__size__))

\* the __load__ classmethod StructMeta.__new__ gives the class cls
Struct__load__(cls, st) ==
    LET fields == cls.fields
        r == load_items([i \in 1..Len(fields) |-> fields[i].t], 1, st, <<>>)
    IN IF ~r.ok THEN r
       ELSE LET named == {i \in 1..Len(fields) : fields[i].k # None} IN
            Returned([type |-> cls.name,
                      attrs |-> [k \in {fields[i].k : i \in named} |->
                                    r.val[CHOOSE i \in named : fields[i].k = k]]],
                     r.st)

__load__(t, st) ==
    CASE t.kind = "Padding" -> Padding__load__(t, st)
      [] t.kind = "SequenceSerializer" -> SequenceSerializer__load__(t, st)
      [] t.kind = "TupleSerializer" -> TupleSerializer__load__(t, st)
      [] t.kind = "BytesSerializer" -> BytesSerializer__load__(t, st)
      [] t.kind = "PrimitiveSerializer" -> PrimitiveSerializer__load__(t, st)
      [] t.kind = "Struct" -> Struct__load__(t, st)

----------------------------------------------------------------------------
(* __save__ *)

RECURSIVE __save__(_, _, _)

\* mutant: padding entries write nothing
Padding__save__nothing(self, x, st) == Returned(NoneValue, st)

Padding__save__(self, x, st) == Returned(NoneValue, write(st, self.contents))

RECURSIVE save_items(_, _, _, _)
\* saves xs[i..] with the serializers ts[i..] in order
save_items(ts, xs, i, st) ==
    IF i > Len(ts) THEN Returned(NoneValue, st)
    ELSE LET r == __save__(ts[i], xs[i], st) IN
         IF ~r.ok THEN r ELSE save_items(ts, xs, i + 1, r.st)

SequenceSerializer__save__(self, x, st) ==
    IF ~(x.type = self.ctor /\ Len(x.items) = self.size) THEN Raised("AssertionError", st)
    ELSE save_items([i \in 1..self.size |-> self.base], x.items, 1, st)

TupleSerializer__save__(self, x, st) ==
    IF ~(x.type = "tuple" /\ Len(x.items) = Len(self.args)) THEN Raised("AssertionError", st)
    ELSE save_items(self.args, x.items, 1, st)

\* mutant: the blob written before its length is checked
BytesSerializer__save__unchecked(self, x, st) ==
    IF ~(x.type = self.ctor /\ Len(x.items) = self.__size__) THEN Raised("AssertionError", write(st, x.items))
    ELSE Returned(NoneValue, write(st, x.items))

BytesSerializer__save__(self, x, st) ==
    IF ~(x.type = self.ctor /\ Len(x.items) = self.__size__) THEN Raised("AssertionError", st)
    ELSE Returned(NoneValue, write(st, x.items))

PrimitiveSerializer__save__(self, x, st) ==
    IF ~packable(self.fmt, x) THEN Raised("struct.error", st)
    ELSE Returned(NoneValue, write(st, pack(self.fmt, x)))

\* the __save__ method StructMeta.__new__ gives the class dcls
Struct__save__(dcls, self, st) ==
    IF self.type # dcls.name THEN Raised("AssertionError", st)
    ELSE LET fields == dcls.fields IN
         save_items([i \in 1..Len(fields) |-> fields[i].t],
                    [i \in 1..Len(fields) |->
                        IF fields[i].k # None THEN self.attrs[fields[i].k] ELSE NoneValue],
                    1, st)

__save__(t, x, st) ==
    CASE t.kind = "Padding" -> Padding__save__(t, x, st)
      [] t.kind = "SequenceSerializer" -> SequenceSerializer__save__(t, x, st)
      [] t.kind = "TupleSerializer" -> TupleSerializer__save__(t, x, st)
      [] t.kind = "BytesSerializer" -> BytesSerializer__save__(t, x, st)
      [] t.kind = "PrimitiveSerializer" -> PrimitiveSerializer__save__(t, x, st)
      [] t.kind = "Struct" -> Struct__save__(t, x, st)

----------------------------------------------------------------------------
(* The declarations the model resolves *)

FieldNames == <<"a", "b", "c", "d", "e">>

ClassNames == <<"C1", "C2", "C3", "C4", "C5">>

\* the __annotations__ of a class body declaring the hints hs in order
Annotations(hs) == [i \in 1..Len(hs) |-> [k |-> FieldNames[i], v |-> hs[i]]]

\* an __align__ the class body may declare
DeclaredAligns == {0, 2, 3}

NoNamespace == [k \in {} |-> 0]

\* the class namespace besides __annotations__: empty, or declaring __align__
Namespaces == {NoNamespace} \cup {("__align__" :> a) : a \in DeclaredAligns}

Blob(n) == ClassHint(Builtin("bytes"), <<FixedSize(n)>>)

LeafHints == {U8, U16} \cup {Blob(n) : n \in 1..MaxBlob}

RECURSIVE HintsOfWeight(_)
RECURSIVE HintSeqs(_)
\* the lists of hints with w nodes in total
HintSeqs(w) ==
    IF w = 0 THEN {<<>>}
    ELSE UNION {{<<h>> \o rest : h \in HintsOfWeight(k), rest \in HintSeqs(w - k)} : k \in 1..w}

\* the classes a class statement with w - 1 nodes of annotations creates
StructsOfWeight(w) ==
    {c \in {StructMeta(ClassNames[w], Annotations(hs), ns, al) :
                hs \in HintSeqs(w - 1), ns \in Namespaces, al \in Policies} :
        c.kind = "Struct"}

\* the hints with w nodes: leaves, fixed tuples, fixed sequences (list[X] and
\* tuple[X, ...] with FixedSize) and already defined Struct classes
HintsOfWeight(w) ==
    IF w < 1 THEN {} ELSE
    (IF w = 1 THEN LeafHints ELSE {})
    \cup {GenericHint("tuple", args, <<>>) : args \in HintSeqs(w - 1)}
    \cup {GenericHint("list", <<h>>, <<FixedSize(n)>>) : h \in HintsOfWeight(w - 1), n \in 0..MaxCount}
    \cup {GenericHint("tuple", <<h, Ellipsis>>, <<FixedSize(n)>>) :
              h \in HintsOfWeight(w - 1), n \in 0..MaxCount}
    \cup {ClassHint(c, <<>>) : c \in StructsOfWeight(w)}

Declarations == UNION {HintSeqs(w) : w \in 0..MaxNodes}

\* src/example.py: Foo, and the annotations of MyStruct
Foo == StructMeta("Foo", <<[k |-> "yeet", v |-> U8], [k |-> "ping", v |-> U8]>>, NoNamespace, "discard")

MyStruct ==
    << [k |-> "foo", v |-> ClassHint(Foo, <<>>)],
       [k |-> "bar", v |-> U32],
       [k |-> "three_bazs", v |-> GenericHint("tuple", <<S64, S64, S64>>, <<>>)] >>

\* MyStruct(foo=Foo(yeet=1, ping=0), bar=1280, three_bazs=(1, 2, 3))
parsed ==
    [type |-> "MyStruct",
     attrs |-> [foo |-> [type |-> "Foo", attrs |-> [yeet |-> PyInt(1), ping |-> PyInt(0)]],
                bar |-> PyInt(1280),
                three_bazs |-> [type |-> "tuple", items |-> <<PyInt(1), PyInt(2), PyInt(3)>>]]]

----------------------------------------------------------------------------
(* The values the model saves *)

RECURSIVE Product(_)
\* the tuples whose i-th element is drawn from sets[i]
Product(sets) ==
    IF sets = <<>> THEN {<<>>}
    ELSE {<<x>> \o rest : x \in sets[1], rest \in Product(Tail(sets))}

\* the instance of class cls whose fields, in layout order, hold xs
Instance(cls, xs) ==
    LET named == {i \in 1..Len(cls.fields) : cls.fields[i].k # None} IN
    [type |-> cls.name,
     attrs |-> [k \in {cls.fields[i].k : i \in named} |->
                   xs[CHOOSE i \in named : cls.fields[i].k = k]]]

RECURSIVE Objects(_)
\* the values of the shape serializer t accepts, integers and bytes within 0..MaxValue
Objects(t) ==
    CASE t.kind = "Padding" -> {NoneValue}
      [] t.kind = "PrimitiveSerializer" -> {PyInt(v) : v \in 0..MaxValue}
      [] t.kind = "BytesSerializer" ->
            {[type |-> t.ctor, items |-> b] : b \in Product([i \in 1..t.__size__ |-> 0..MaxValue])}
      [] t.kind = "SequenceSerializer" ->
            {[type |-> t.ctor, items |-> xs] : xs \in Product([i \in 1..t.size |-> Objects(t.base)])}
      [] t.kind = "TupleSerializer" ->
            {[type |-> "tuple", items |-> xs] :
                xs \in Product([i \in 1..Len(t.args) |-> Objects(t.args[i])])}
      [] t.kind = "Struct" ->
            {Instance(t, xs) : xs \in Product([i \in 1..Len(t.fields) |-> Objects(t.fields[i].t)])}

RECURSIVE Sample(_)
\* one value of the shape t accepts
Sample(t) ==
    CASE t.kind = "Padding" -> NoneValue
      [] t.kind = "PrimitiveSerializer" -> PyInt(1)
      [] t.kind = "BytesSerializer" -> [type |-> t.ctor, items |-> [i \in 1..t.__size__ |-> 1]]
      [] t.kind = "SequenceSerializer" -> [type |-> t.ctor, items |-> [i \in 1..t.size |-> Sample(t.base)]]
      [] t.kind = "TupleSerializer" ->
            [type |-> "tuple", items |-> [i \in 1..Len(t.args) |-> Sample(t.args[i])]]
      [] t.kind = "Struct" -> Instance(t, [i \in 1..Len(t.fields) |-> Sample(t.fields[i].t)])

\* xs with its last element dropped and xs with one more element
WrongLength(xs, extra) ==
    {Append(xs, extra)} \cup (IF xs = <<>> THEN {} ELSE {SubSeq(xs, 1, Len(xs) - 1)})

\* xs with element i replaced by y
Replace(xs, i, y) == [j \in 1..Len(xs) |-> IF j = i THEN y ELSE xs[j]]

RECURSIVE BadObjects(_)
\* values that miss the shape of t in exactly one place: a tuple of the wrong
\* arity, a sequence or blob of the wrong length, an instance of another class
BadObjects(t) ==
    CASE t.kind = "Padding" -> {}
      [] t.kind = "PrimitiveSerializer" -> {}
      [] t.kind = "BytesSerializer" ->
            {[type |-> t.ctor, items |-> b] : b \in WrongLength(Sample(t).items, 1)}
      [] t.kind = "SequenceSerializer" ->
            {[type |-> t.ctor, items |-> xs] : xs \in WrongLength(Sample(t).items, Sample(t.base))}
            \cup {[type |-> t.ctor, items |-> Replace(Sample(t).items, i, y)] :
                     i \in 1..t.size, y \in BadObjects(t.base)}
      [] t.kind = "TupleSerializer" ->
            {[type |-> "tuple", items |-> xs] : xs \in WrongLength(Sample(t).items, PyInt(1))}
            \cup UNION {{[type |-> "tuple", items |-> Replace(Sample(t).items, i, y)] :
                            y \in BadObjects(t.args[i])} : i \in 1..Len(t.args)}
      [] t.kind = "Struct" ->
            {[Sample(t) EXCEPT !.type = "Struct"]}
            \cup UNION {{Instance(t, Replace([j \in 1..Len(t.fields) |-> Sample(t.fields[j].t)], i, y)) :
                            y \in BadObjects(t.fields[i].t)} : i \in 1..Len(t.fields)}

----------------------------------------------------------------------------
(* The byte sources the model loads from *)

RECURSIVE PadOffsets(_, _)
\* the offsets, from the start of the top-level encoding, of the bytes that
\* belong to padding entries of t when t starts at offset off
PadOffsets(t, off) ==
    CASE t.kind = "Padding" -> off..(off + t.__size__ - 1)
      [] t.kind = "SequenceSerializer" ->
            UNION {PadOffsets(t.base, off + (i - 1) * t.base.__size__) : i \in 1..t.size}
      [] t.kind = "TupleSerializer" ->
            UNION {PadOffsets(t.args[i], off + sum([j \in 1..(i - 1) |-> t.args[j].__size__])) :
                      i \in 1..Len(t.args)}
      [] t.kind = "Struct" ->
            UNION {PadOffsets(t.fields[i].t, off + sum([j \in 1..(i - 1) |-> t.fields[j].t.__size__])) :
                      i \in 1..Len(t.fields)}
      [] OTHER -> {}

\* what a caller may hand to __load__ after data was written by __save__:
\* data itself, data followed by one more byte, every proper prefix of data,
\* and data with one padding byte made non-zero
Sources(cls, data) ==
    {data, Append(data, 1)}
    \cup {SubSeq(data, 1, n) : n \in 0..(Len(data) - 1)}
    \cup {[data EXCEPT ![p + 1] = 1] : p \in PadOffsets(cls, 0)}

----------------------------------------------------------------------------
(* The state machine *)

VARIABLES
    pc,           \* "class": before the class statement; "failed": it raised;
                  \* "defined"; "saved": __save__ was called; "loaded": __load__ was called
    annotations,  \* __annotations__ of the class body
    namespace,    \* the rest of the class namespace
    align,        \* the align= keyword of the class statement
    cls,          \* the class StructMeta.__new__ returned, or the exception it raised
    self,         \* the object __save__ was called on
    saved,        \* outcome of __save__ and the cursor written to
    loaded        \* outcome of __load__ and the cursor read from

vars == <<pc, annotations, namespace, align, cls, self, saved, loaded>>

NoClass == [kind |-> "None"]

NotCalled == Raised("not called", BytesIO(<<>>))

Init ==
    /\ pc = "class"
    /\ annotations = <<>>
    /\ namespace = NoNamespace
    /\ align = "discard"
    /\ cls = NoClass
    /\ self = NoneValue
    /\ saved = NotCalled
    /\ loaded = NotCalled

\* the effect of a class statement `class name(Struct, align=al)` whose body
\* holds the annotations ann and the namespace ns
ClassStatement(name, ann, ns, al) ==
    /\ annotations' = ann
    /\ namespace' = ns
    /\ align' = al
    /\ cls' = StructMeta(name, ann, ns, al)
    /\ pc' = IF IsError(StructMeta(name, ann, ns, al)) THEN "failed" ELSE "defined"
    /\ UNCHANGED <<self, saved, loaded>>

\* a generic class statement
DefineStruct ==
    /\ pc = "class"
    /\ \E hs \in Declarations, ns \in Namespaces, al \in Policies :
          ClassStatement("Top", Annotations(hs), ns, al)

\* the class statements of src/example.py, under each policy
DefineMyStruct ==
    /\ pc = "class"
    /\ \E al \in Policies : ClassStatement("MyStruct", MyStruct, NoNamespace, al)

\* x.__save__(st := BytesIO())
Save ==
    /\ pc = "defined"
    /\ \E x \in Objects(cls) \cup BadObjects(cls) \cup (IF cls.name = "MyStruct" THEN {parsed} ELSE {}) :
          /\ self' = x
          /\ saved' = __save__(cls, x, BytesIO(<<>>))
    /\ pc' = "saved"
    /\ UNCHANGED <<annotations, namespace, align, cls, loaded>>

\* cls.__load__(st := BytesIO(data))
Load ==
    /\ pc = "saved"
    /\ saved.ok
    /\ \E data \in Sources(cls, saved.st.buf) :
          loaded' = __load__(cls, BytesIO(data))
    /\ pc' = "loaded"
    /\ UNCHANGED <<annotations, namespace, align, cls, self, saved>>

Next == DefineStruct \/ DefineMyStruct \/ Save \/ Load

Spec == Init /\ [][Next]_vars

----------------------------------------------------------------------------
(* Vocabulary of the properties *)

\* a class was produced by the class statement
Resolved == pc \in {"defined", "saved", "loaded"}

\* the class body declares __align__
DeclaresAlign == "__align__" \in DOMAIN namespace

IsPadding(e) == e.k = None

HasPadding(c) == \E i \in 1..Len(c.fields) : IsPadding(c.fields[i])

\* offset of entry i of a field list: the sizes of all entries before it
OffsetOf(fields, i) == sum([j \in 1..(i - 1) |-> fields[j].t.__size__])

\* the serializers of the declared fields, as parse_hint returns them
ParsedHints == [i \in 1..Len(annotations) |-> parse_hint(annotations[i].v)]

\* the entries of a field list that are not padding, in order
DeclaredEntries(fields) == SelectSeq(fields, LAMBDA e : ~IsPadding(e))

RECURSIVE Product1(_)
Product1(xs) == IF xs = <<>> THEN 1 ELSE xs[1] * Product1(Tail(xs))

\* the least positive common multiple of the positive numbers xs
LeastCommonMultiple(xs) ==
    CHOOSE m \in 1..Product1(xs) :
        /\ \A i \in 1..Len(xs) : m % xs[i] = 0
        /\ \A l \in 1..(m - 1) : \E i \in 1..Len(xs) : l % xs[i] # 0

\* the greatest d dividing every one of the positive numbers xs (xs not empty)
GreatestCommonDivisor(xs) ==
    CHOOSE d \in 1..xs[1] :
        /\ \A i \in 1..Len(xs) : xs[i] % d = 0
        /\ \A e \in (d + 1)..xs[1] : \E i \in 1..Len(xs) : xs[i] % e # 0

\* the same class statement under another policy
Under(al) == StructMeta("Top", annotations, namespace, al)

RECURSIVE VerifiedPads(_, _)
\* <<start, end>> offsets of every padding entry that __load__ verifies
\* (mode other than discard), when t starts at offset off
VerifiedPads(t, off) ==
    CASE t.kind = "Padding" -> IF t.mode # "discard" THEN {<<off, off + t.__size__>>} ELSE {}
      [] t.kind = "SequenceSerializer" ->
            UNION {VerifiedPads(t.base, off + (i - 1) * t.base.__size__) : i \in 1..t.size}
      [] t.kind = "TupleSerializer" ->
            UNION {VerifiedPads(t.args[i], off + sum([j \in 1..(i - 1) |-> t.args[j].__size__])) :
                      i \in 1..Len(t.args)}
      [] t.kind = "Struct" ->
            UNION {VerifiedPads(t.fields[i].t, off + OffsetOf(t.fields, i)) : i \in 1..Len(t.fields)}
      [] OTHER -> {}

\* the verified padding entries of cls that hold a non-zero byte in data
DirtyPads(data) ==
    {r \in VerifiedPads(cls, 0) : \E p \in (r[1] + 1)..r[2] : p <= Len(data) /\ data[p] # 0}

\* the first of them in layout order
FirstDirtyPad(data) == CHOOSE r \in DirtyPads(data) : \A q \in DirtyPads(data) : r[1] <= q[1]

IsPrefix(a, b) == Len(a) <= Len(b) /\ a = SubSeq(b, 1, Len(a))

\* the bytes of src/example.py line 30 and line 49
data_discard ==
    <<1, 0, 0, 0, 0, 5, 0, 0, 1, 0, 0, 0, 0, 0, 0, 0, 2, 0, 0, 0, 0, 0, 0, 0, 3, 0, 0, 0, 0, 0, 0, 0>>

data_no ==
    <<1, 0, 0, 5, 0, 0, 1, 0, 0, 0, 0, 0, 0, 0, 2, 0, 0, 0, 0, 0, 0, 0, 3, 0, 0, 0, 0, 0, 0, 0>>

----------------------------------------------------------------------------
(* Properties *)

EveryLoadAdvancesBySize ==
    (pc = "loaded" /\ Len(loaded.st.buf) >= cls.__size__) => loaded.st.pos = cls.__size__

\* C2 amended (size law): a top-level __load__ that returns a value from a
\* cursor holding at least __size__ bytes has advanced it by exactly __size__;
\* a successful top-level __save__ has written exactly __size__ bytes; the
\* class of src/example.py under the default policy is 32 bytes.
SizeLaw ==
    /\ (pc = "loaded" /\ loaded.ok /\ Len(loaded.st.buf) >= cls.__size__)
          => loaded.st.pos = cls.__size__
    /\ (pc \in {"saved", "loaded"} /\ saved.ok)
          => (Len(saved.st.buf) = cls.__size__ /\ saved.st.pos = cls.__size__)
    /\ (Resolved /\ cls.name = "MyStruct" /\ align = "discard") => cls.__size__ = 32

\* C2 witness: a class with inserted padding was loaded from more bytes than
\* its size and the cursor stopped at __size__
SizeLawWitness ==
    /\ pc = "loaded" /\ loaded.ok /\ HasPadding(cls)
    /\ Len(loaded.st.buf) > cls.__size__ /\ loaded.st.pos = cls.__size__
    /\ Len(saved.st.buf) = cls.__size__ /\ cls.__size__ > 0

\* C3 (alignment law): every class produced has __align__ >= 1 and a __size__
\* that is a multiple of it, under every policy, declared or computed; and a
\* declared __align__ that does not divide the size the layout pass computes
\* makes the class statement fail.
AlignmentLaw ==
    /\ Resolved => (cls.__align__ >= 1 /\ cls.__size__ % cls.__align__ = 0)
    /\ (pc # "class" /\ DeclaresAlign) =>
          LET computed == StructMeta("Top", annotations, NoNamespace, align) IN
          (/\ ~IsError(computed)
           /\ \/ namespace["__align__"] <= 0
              \/ computed.__size__ % namespace["__align__"] # 0)
             => pc = "failed"

\* C3 witness: a declared alignment of 3 was accepted for a class whose
\* computed alignment is another number
AlignmentLawWitness ==
    /\ pc = "defined" /\ DeclaresAlign /\ cls.__align__ = 3 /\ cls.__size__ > 0
    /\ StructMeta("Top", annotations, NoNamespace, align).__align__ # 3

\* C4 as claimed: the class of src/example.py under policy `no` packs its
\* fields with no gaps, and its __size__ and the output of saving the example
\* value are 28 bytes.
Scenario2Is28Bytes ==
    (Resolved /\ cls.name = "MyStruct" /\ align = "no") =>
        /\ ~HasPadding(cls)
        /\ cls.__size__ = 28
        /\ (pc \in {"saved", "loaded"} /\ self = parsed) => (saved.ok /\ Len(saved.st.buf) = 28)

\* C4 amended: the class of src/example.py under policy `no` has no padding
\* entry and __size__ 30 (2 + 4 + 3 * 8), and saving the example value writes
\* the 30 bytes of src/example.py line 49.
Scenario2 ==
    (Resolved /\ cls.name = "MyStruct" /\ align = "no") =>
        /\ ~HasPadding(cls)
        /\ cls.__size__ = 30
        /\ (pc \in {"saved", "loaded"} /\ self = parsed) =>
              (saved.ok /\ saved.st.buf = data_no /\ Len(saved.st.buf) = 30)

\* C4 witness: the example value was saved under policy `no`
Scenario2Witness ==
    /\ pc = "saved" /\ cls.name = "MyStruct" /\ align = "no"
    /\ self = parsed /\ saved.ok /\ saved.st.buf = data_no

\* C5 as claimed, for declarations whose fields, and whose declared __align__
\* if any, all have an alignment of at least 1: under `explicit` the class statement fails if and only if the
\* layout of the declared fields needs a pad (the `discard` layout of the same
\* fields holds a padding entry), and then names the pad.
ExplicitFailsIffPadNeeded ==
    (/\ pc # "class" /\ align = "explicit"
     /\ \A i \in 1..Len(ParsedHints) : ~IsError(ParsedHints[i]) /\ ParsedHints[i].__align__ >= 1
     /\ DeclaresAlign => namespace["__align__"] >= 1) =>
        LET natural == StructMeta("Top", annotations, NoNamespace, "discard") IN
        /\ (pc = "failed") <=> (~IsError(natural) /\ HasPadding(natural))
        /\ (pc = "failed") => (cls.msg = "unannotated padding" /\ cls.pad > 0)

\* C5 amended: under `explicit` the class statement fails if and only if the
\* same statement under `discard` fails or its `discard` layout holds a
\* padding entry; when the `discard` layout resolves and holds padding, the
\* `explicit` error is the unannotated-padding error naming the size of its
\* first padding entry and the alignment that asked for it; when `explicit`
\* resolves, the class has the size, alignment and field list of `discard`.
ExplicitRejection ==
    (pc # "class" /\ align = "explicit") =>
        LET d == Under("discard") IN
        /\ (pc = "failed") <=> (IsError(d) \/ HasPadding(d))
        /\ (~IsError(d) /\ HasPadding(d)) =>
              LET i == CHOOSE i \in 1..Len(d.fields) :
                           IsPadding(d.fields[i]) /\ \A j \in 1..(i - 1) : ~IsPadding(d.fields[j])
                  n == IF i < Len(d.fields) THEN d.fields[i + 1].t.__align__
                       ELSE StructMeta("Top", annotations, NoNamespace, "discard").__align__
              IN cls = Error("AssertionError", "unannotated padding", d.fields[i].t.__size__, n)
        /\ (pc # "failed") =>
              (cls.__size__ = d.__size__ /\ cls.__align__ = d.__align__ /\ cls.fields = d.fields)

\* C5 witness: an `explicit` class statement was rejected for a pad of 2
\* bytes before a 4-byte field (scenario 4 of the specification)
ExplicitRejectionWitness ==
    /\ pc = "failed" /\ align = "explicit"
    /\ cls = Error("AssertionError", "unannotated padding", 2, 4)

ShortReadRaises ==
    (pc = "loaded" /\ Len(loaded.st.buf) < cls.__size__) => ~loaded.ok

DescriptorInvariant ==
    (pc # "class") =>
        \A i \in 1..Len(ParsedHints) :
            LET t == ParsedHints[i] IN
            ~IsError(t) =>
                /\ t.__size__ >= 0
                /\ t.__align__ >= 1
                /\ t.kind = "TupleSerializer" =>
                      /\ t.__size__ = sum([j \in 1..Len(t.args) |-> t.args[j].__size__])
                      /\ Len(t.args) > 0 =>
                            t.__align__ = GreatestCommonDivisor([j \in 1..Len(t.args) |-> t.args[j].__align__])

\* C10 (layout pass): for a class resolved under `discard` or `zeros` without
\* a declared alignment, every declared field starts at a multiple of its
\* alignment, every padding entry sits before a declared field (or at the end)
\* and has length (-offset) mod a with 0 < length < a, a being the alignment of
\* that field (or of the class), the declared fields are kept in order, and
\* the class alignment is the least common multiple of the declared fields'
\* alignments; under `no` there is no padding entry, the size is the sum of
\* the field sizes and the alignment (unless declared) is 1.
LayoutPass ==
    /\ (Resolved /\ align \in {"discard", "zeros"} /\ ~DeclaresAlign) =>
          LET fields == cls.fields IN
          /\ \A i \in 1..Len(fields) :
                IF IsPadding(fields[i])
                THEN LET a == IF i < Len(fields) THEN fields[i + 1].t.__align__ ELSE cls.__align__
                         length == fields[i].t.__size__
                     IN /\ i < Len(fields) => ~IsPadding(fields[i + 1])
                        /\ fields[i].t.kind = "Padding" /\ fields[i].t.mode = align
                        /\ length = (a - (OffsetOf(fields, i) % a)) % a
                        /\ 0 < length /\ length < a
                ELSE OffsetOf(fields, i) % fields[i].t.__align__ = 0
          /\ DeclaredEntries(fields) = [i \in 1..Len(annotations) |-> [k |-> annotations[i].k, t |-> ParsedHints[i]]]
          /\ cls.__align__ = LeastCommonMultiple([i \in 1..Len(ParsedHints) |-> ParsedHints[i].__align__])
          /\ cls.__size__ = OffsetOf(fields, Len(fields) + 1)
    /\ (Resolved /\ align = "no") =>
          /\ ~HasPadding(cls)
          /\ cls.__size__ = sum([i \in 1..Len(ParsedHints) |-> ParsedHints[i].__size__])
          /\ ~DeclaresAlign => cls.__align__ = 1

\* C10 witness: a class with a pad between two fields and a trailing pad,
\* whose alignment is neither field's own
LayoutPassWitness ==
    /\ pc = "defined" /\ align \in {"discard", "zeros"} /\ ~DeclaresAlign
    /\ Len(cls.fields) >= 4
    /\ IsPadding(cls.fields[2]) /\ IsPadding(cls.fields[Len(cls.fields)])
    /\ \A i \in 1..Len(ParsedHints) : ParsedHints[i].__align__ # cls.__align__

====
